---- MODULE Spec2Model ----
(***************************************************************************)
(* Model of aliyunpan/file_directory.go: the paginated lister (FileList,   *)
(* FileListGetAll), the path resolver (FileInfoByPath, getFileInfoByPath)  *)
(* and the tree walker (FilesDirectoriesRecurseList, recurseList).         *)
(*                                                                         *)
(* Strings that the code inspects character by character (paths, file      *)
(* names) are sequences of one-character strings.  Identifiers, markers    *)
(* and error values, which the code only compares and passes on, are TLA+  *)
(* strings.  An absent pointer is a record with the field nil set.         *)
(* The remote server and the visitor callback are the environment: every   *)
(* listing request has a nondeterministic outcome and every visitor        *)
(* invocation a nondeterministic boolean result.                           *)
(***************************************************************************)
EXTENDS Integers, Sequences, FiniteSets, TLC

VARIABLES pc, api, la, laRet, rs, rsRet, stack, fld, pend, retv, events, result

vars == <<pc, api, la, laRet, rs, rsRet, stack, fld, pend, retv, events, result>>

(***************************************************************************)
(* Bounds of the model.                                                    *)
(***************************************************************************)
\* longest path string handed to FileInfoByPath / FilesDirectoriesRecurseList
MaxPathLen == 4
\* most listing requests the environment lets fail during one operation
MaxFailures == 1
\* most records the server puts into one page, whatever limit was asked
ServerPageCap == 2

Min(a, b) == IF a < b THEN a ELSE b

(***************************************************************************)
(* Constants of the program.                                               *)
(***************************************************************************)
DefaultRootParentFileId == "root"
PathSeparator == "/"
DefaultLimit == 100

\* absent values: a nil *FileEntity, a nil FileList (a list keeps its
\* elements in v), a nil *ApiError, and the test for a nil pointer
NilEntity == [nil |-> TRUE]
NilList == [nil |-> TRUE, v |-> <<>>]
ListOf(s) == [nil |-> FALSE, v |-> s]
NoErr == "nil"
IsNil(x) == "nil" \in DOMAIN x

\* error values (apierror.ApiError); the code only creates and forwards them
ErrTransport == "failed:fetch"
ErrEnvelope == "common-api-error"
ErrParse == "failed:json"
ErrNotAbs == "failed:pathStr-not-absolute"
ErrFileNotFound == "FileNotFound"

(***************************************************************************)
(* Strings as sequences of characters: path.IsAbs, path.Clean,             *)
(* strings.Split and strings.ReplaceAll as the code uses them.             *)
(***************************************************************************)
Chars == {"/", ".", "d", "A", "f"}

RECURSIVE SeqsUpTo(_)
SeqsUpTo(n) ==
  IF n = 0 THEN {<<>>}
  ELSE LET S == SeqsUpTo(n - 1)
       IN S \cup {Append(s, c) : s \in {t \in S : Len(t) = n - 1}, c \in Chars}

Paths == SeqsUpTo(MaxPathLen)

IsAbs(p) == Len(p) > 0 /\ p[1] = "/"

RECURSIVE SplitAt(_, _, _, _)
SplitAt(s, i, cur, acc) ==
  IF i > Len(s) THEN Append(acc, cur)
  ELSE IF s[i] = PathSeparator THEN SplitAt(s, i + 1, <<>>, Append(acc, cur))
  ELSE SplitAt(s, i + 1, Append(cur, s[i]), acc)

\* strings.Split(s, PathSeparator)
Split(s) == SplitAt(s, 1, <<>>, <<>>)

RECURSIVE Join(_)
Join(segs) ==
  IF Len(segs) = 0 THEN <<>>
  ELSE IF Len(segs) = 1 THEN segs[1]
  ELSE segs[1] \o <<"/">> \o Join(Tail(segs))

DotDot == <<".", ".">>

RECURSIVE CleanComps(_, _, _, _)
CleanComps(comps, i, rooted, out) ==
  IF i > Len(comps) THEN out
  ELSE LET c == comps[i] IN
    IF Len(c) = 0 \/ c = <<".">> THEN CleanComps(comps, i + 1, rooted, out)
    ELSE IF c = DotDot
      THEN IF Len(out) > 0 /\ out[Len(out)] # DotDot
             THEN CleanComps(comps, i + 1, rooted, SubSeq(out, 1, Len(out) - 1))
           ELSE IF rooted THEN CleanComps(comps, i + 1, rooted, out)
           ELSE CleanComps(comps, i + 1, rooted, Append(out, c))
    ELSE CleanComps(comps, i + 1, rooted, Append(out, c))

\* path.Clean(p)
Clean(p) ==
  IF Len(p) = 0 THEN <<".">>
  ELSE LET rooted == p[1] = "/"
           out == CleanComps(Split(p), 1, rooted, <<>>)
       IN IF rooted THEN <<"/">> \o Join(out)
          ELSE IF Len(out) = 0 THEN <<".">> ELSE Join(out)

RECURSIVE ReplaceFrom(_, _)
ReplaceFrom(s, i) ==
  IF i > Len(s) THEN <<>>
  ELSE IF i < Len(s) /\ s[i] = "/" /\ s[i + 1] = "/"
    THEN <<"/">> \o ReplaceFrom(s, i + 2)
  ELSE <<s[i]>> \o ReplaceFrom(s, i + 1)

\* strings.ReplaceAll(s, "//", "/")
ReplaceAll(s) == ReplaceFrom(s, 1)

(***************************************************************************)
(* The remote server: what a /v2/file/list request is answered with.       *)
(***************************************************************************)
Drives == {"drv1", "drv2"}

Wire(drive, id, name, type, parent) ==
  [drive_id |-> drive, file_id |-> id, name |-> name, type |-> type,
   parent_file_id |-> parent]

\* a JSON null among the items
NullItem == [nil |-> TRUE]

\* the children of a parent id in the server's listing order
ServerItems(drive, pFileId) ==
  IF drive = "drv1" THEN
    CASE pFileId = "root" ->
           << Wire(drive, "d1", <<"d">>, "folder", "root"),
              NullItem,
              Wire(drive, "f1", <<"f">>, "file", "root"),
              Wire(drive, "d2", <<"d">>, "file", "root") >>
      [] pFileId = "d1" ->
           << Wire(drive, "a1", <<"A">>, "folder", "d1"),
              Wire(drive, "f2", <<"f">>, "file", "d1") >>
      [] pFileId = "a1" ->
           << Wire(drive, "f3", <<"f">>, "file", "a1") >>
      [] OTHER -> <<>>
  ELSE
    CASE pFileId = "root" ->
           << Wire(drive, "g1", <<"f">>, "file", "root") >>
      [] OTHER -> <<>>

\* the opaque continuation markers the server hands out: MarkerNames[k]
\* continues after the k-th child
MarkerNames == <<"m1", "m2", "m3", "m4", "m5", "m6">>

MarkerOffset(m) ==
  IF \E k \in 1..Len(MarkerNames) : MarkerNames[k] = m
    THEN CHOOSE k \in 1..Len(MarkerNames) : MarkerNames[k] = m
  ELSE 0

\* the body of a successful answer to one listing request
ServerPage(req) ==
  LET items == ServerItems(req.drive_id, req.parent_file_id)
      off == MarkerOffset(req.marker)
      hi == Min(off + Min(req.limit, ServerPageCap), Len(items))
  IN [Items |-> SubSeq(items, off + 1, hi),
      NextMarker |-> IF hi < Len(items) THEN MarkerNames[hi] ELSE ""]

\* how one request ends: answered, transport failure, error envelope,
\* body that does not parse
Outcomes == {"ok", "transport", "envelope", "parse"}

(***************************************************************************)
(* Entities.  Of the fields of FileEntity the model keeps those the        *)
(* lister, the resolver and the walker read or write.                      *)
(***************************************************************************)
\* the root entity built without its file type
NewFileEntityForRootDir_NoType ==
  [DriveId |-> "", FileId |-> DefaultRootParentFileId, FileType |-> "",
   FileName |-> <<"/">>, ParentFileId |-> "", Path |-> <<"/">>]

NewFileEntityForRootDir ==
  [DriveId |-> "", FileId |-> DefaultRootParentFileId, FileType |-> "folder",
   FileName |-> <<"/">>, ParentFileId |-> "", Path |-> <<"/">>]

createFileEntity(f) ==
  IF IsNil(f) THEN NilEntity
  ELSE [DriveId |-> f.drive_id, FileId |-> f.file_id, FileName |-> f.name,
        FileType |-> f.type, ParentFileId |-> f.parent_file_id,
        Path |-> f.name]

IsFolder(f) == f.FileType = "folder"

(***************************************************************************)
(* Paginated lister.                                                       *)
(***************************************************************************)
\* one request: the post data sent, and what the function returns on the
\* given outcome of the exchange
fileListReq(param, outcome) ==
  LET pFileId == IF param.ParentFileId = "" THEN DefaultRootParentFileId
                 ELSE param.ParentFileId
      limit == IF param.Limit <= 0 THEN DefaultLimit ELSE param.Limit
      req == [drive_id |-> param.DriveId, parent_file_id |-> pFileId,
              limit |-> limit, marker |-> param.Marker]
  IN CASE outcome = "transport" -> [r |-> [nil |-> TRUE], err |-> ErrTransport, req |-> req]
       [] outcome = "envelope" -> [r |-> [nil |-> TRUE], err |-> ErrEnvelope, req |-> req]
       [] outcome = "parse" -> [r |-> [nil |-> TRUE], err |-> ErrParse, req |-> req]
       [] OTHER -> [r |-> ServerPage(req), err |-> NoErr, req |-> req]

RECURSIVE MapItems(_, _)
\* the loop of FileList over flr.Items from position k on
MapItems(items, k) ==
  IF k > Len(items) THEN <<>>
  ELSE IF IsNil(items[k]) THEN MapItems(items, k + 1)
  ELSE <<createFileEntity(items[k])>> \o MapItems(items, k + 1)

\* FileList leaving the marker of the failed request in its result
FileListOf_KeepMarker(q) ==
  [result |-> IF q.err = NoErr
                THEN [FileList |-> MapItems(q.r.Items, 1), NextMarker |-> q.r.NextMarker]
              ELSE [FileList |-> <<>>, NextMarker |-> q.req.marker],
   err |-> NoErr]

\* what FileList returns from the outcome of its request
FileListOf(q) ==
  [result |-> IF q.err = NoErr
                THEN [FileList |-> MapItems(q.r.Items, 1), NextMarker |-> q.r.NextMarker]
              ELSE [FileList |-> <<>>, NextMarker |-> ""],
   err |-> NoErr]

FileList(param, outcome) == FileListOf(fileListReq(param, outcome))

\* FileListGetAll up to its first call of FileList: the frame of the call
FileListGetAllEnter(param, caller) ==
  [param |-> [param EXCEPT !.Limit = IF @ <= 0 THEN DefaultLimit ELSE @],
   fileList |-> <<>>, first |-> TRUE, caller |-> caller]

NoLa == [nil |-> TRUE]
NoRet == [nil |-> TRUE]

\* FileListGetAll keeping the last page instead of appending it
FileListGetAllLoop_Overwrite(f, fl, res) ==
  IF res.result.NextMarker # ""
    THEN [done |-> FALSE, ret |-> NoRet,
          la |-> [f EXCEPT !.fileList = res.result.FileList, !.first = FALSE,
                           !.param.Marker = res.result.NextMarker]]
  ELSE [done |-> TRUE, ret |-> [list |-> ListOf(res.result.FileList), err |-> NoErr],
        la |-> [f EXCEPT !.fileList = res.result.FileList, !.first = FALSE]]

\* FileListGetAll taking every page for the last one
FileListGetAllLoop_StopEarly(f, fl, res) ==
  [done |-> TRUE, ret |-> [list |-> ListOf(fl), err |-> NoErr],
   la |-> [f EXCEPT !.fileList = fl, !.first = FALSE]]

\* the loop condition of FileListGetAll once a page has been appended
FileListGetAllLoop(f, fl, res) ==
  IF res.result.NextMarker # ""
    THEN [done |-> FALSE, ret |-> NoRet,
          la |-> [f EXCEPT !.fileList = fl, !.first = FALSE,
                           !.param.Marker = res.result.NextMarker]]
  ELSE [done |-> TRUE, ret |-> [list |-> ListOf(fl), err |-> NoErr],
        la |-> [f EXCEPT !.fileList = fl, !.first = FALSE]]

\* FileListGetAll from the return of one call of FileList on
FileListGetAllStep(f, res) ==
  IF f.first
    THEN IF res.err # NoErr \/ IsNil(res.result)
           THEN [done |-> TRUE, ret |-> [list |-> NilList, err |-> res.err], la |-> f]
         ELSE FileListGetAllLoop(f, f.fileList \o res.result.FileList, res)
  ELSE IF res.err = NoErr /\ ~IsNil(res.result)
         THEN FileListGetAllLoop(f, f.fileList \o res.result.FileList, res)
       ELSE [done |-> TRUE, ret |-> [list |-> ListOf(f.fileList), err |-> NoErr], la |-> f]

(***************************************************************************)
(* Path resolver.                                                          *)
(***************************************************************************)
RECURSIVE getFileInfoByPathEnter(_, _, _)
\* getFileInfoByPath up to its call of FileListGetAll (index counts from 0)
getFileInfoByPathEnter(index, pathSlice, parentFileInfo) ==
  IF IsNil(parentFileInfo)
    THEN IF index = 0 /\ Len(pathSlice) = 1
           THEN [ret |-> TRUE, fileInfo |-> NewFileEntityForRootDir, err |-> NoErr]
         ELSE getFileInfoByPathEnter(index + 1, pathSlice, NewFileEntityForRootDir)
  ELSE IF index >= Len(pathSlice)
    THEN [ret |-> TRUE, fileInfo |-> parentFileInfo, err |-> NoErr]
  ELSE [ret |-> FALSE, index |-> index, parent |-> parentFileInfo]

\* the last entity of the listing whose name is the segment, 0 when none
FirstMatch_Last(fileResult, name) ==
  IF \E k \in 1..Len(fileResult) : fileResult[k].FileName = name
    THEN CHOOSE k \in 1..Len(fileResult) :
           /\ fileResult[k].FileName = name
           /\ \A j \in (k + 1)..Len(fileResult) : fileResult[j].FileName # name
  ELSE 0

\* the first entity of the listing whose name is the segment, 0 when none
FirstMatch(fileResult, name) ==
  IF \E k \in 1..Len(fileResult) : fileResult[k].FileName = name
    THEN CHOOSE k \in 1..Len(fileResult) :
           /\ fileResult[k].FileName = name
           /\ \A j \in 1..(k - 1) : fileResult[j].FileName # name
  ELSE 0

\* getFileInfoByPath returning no error when no child has the name
getFileInfoByPathScan_NoError(index, pathSlice, lr) ==
  IF lr.err # NoErr
    THEN [ret |-> TRUE, fileInfo |-> NilEntity, err |-> lr.err]
  ELSE IF lr.list.nil \/ Len(lr.list.v) = 0
    THEN [ret |-> TRUE, fileInfo |-> NilEntity, err |-> ErrFileNotFound]
  ELSE LET k == FirstMatch(lr.list.v, pathSlice[index + 1])
       IN IF k = 0
            THEN [ret |-> TRUE, fileInfo |-> NilEntity, err |-> NoErr]
          ELSE getFileInfoByPathEnter(index + 1, pathSlice, lr.list.v[k])

\* getFileInfoByPath giving up at a file that has segments left
getFileInfoByPathScan_FolderOnly(index, pathSlice, lr) ==
  IF lr.err # NoErr
    THEN [ret |-> TRUE, fileInfo |-> NilEntity, err |-> lr.err]
  ELSE IF lr.list.nil \/ Len(lr.list.v) = 0
    THEN [ret |-> TRUE, fileInfo |-> NilEntity, err |-> ErrFileNotFound]
  ELSE LET k == FirstMatch(lr.list.v, pathSlice[index + 1])
       IN IF k = 0 \/ (~IsFolder(lr.list.v[k]) /\ index + 1 < Len(pathSlice))
            THEN [ret |-> TRUE, fileInfo |-> NilEntity, err |-> ErrFileNotFound]
          ELSE getFileInfoByPathEnter(index + 1, pathSlice, lr.list.v[k])

\* getFileInfoByPath from the return of FileListGetAll on
getFileInfoByPathScan(index, pathSlice, lr) ==
  IF lr.err # NoErr
    THEN [ret |-> TRUE, fileInfo |-> NilEntity, err |-> lr.err]
  ELSE IF lr.list.nil \/ Len(lr.list.v) = 0
    THEN [ret |-> TRUE, fileInfo |-> NilEntity, err |-> ErrFileNotFound]
  ELSE LET k == FirstMatch(lr.list.v, pathSlice[index + 1])
       IN IF k = 0
            THEN [ret |-> TRUE, fileInfo |-> NilEntity, err |-> ErrFileNotFound]
          ELSE getFileInfoByPathEnter(index + 1, pathSlice, lr.list.v[k])

\* FileInfoByPath taking a relative path as relative to the root
FileInfoByPathCheck_Lenient(pathStr0) ==
  LET p1 == IF IsAbs(pathStr0) THEN pathStr0 ELSE <<"/">> \o pathStr0
      p2 == IF Len(p1) > 1 THEN Clean(p1) ELSE p1
  IN [ok |-> TRUE, pathStr |-> p2,
      pathSlice |-> IF p2 = <<"/">> THEN << <<>> >> ELSE Split(p2)]

\* FileInfoByPath without the replacement of the empty path
FileInfoByPathCheck_NoEmpty(pathStr0) ==
  IF ~IsAbs(pathStr0)
    THEN [ok |-> FALSE, err |-> ErrNotAbs]
  ELSE LET p2 == IF Len(pathStr0) > 1 THEN Clean(pathStr0) ELSE pathStr0
           pathSlice == IF p2 = <<"/">> THEN << <<>> >> ELSE Split(p2)
       IN IF p2 # <<"/">> /\ Len(pathSlice[1]) # 0
            THEN [ok |-> FALSE, err |-> ErrNotAbs]
          ELSE [ok |-> TRUE, pathStr |-> p2, pathSlice |-> pathSlice]

\* FileInfoByPath up to its call of getFileInfoByPath: the path checks
FileInfoByPathCheck(pathStr0) ==
  LET p1 == IF Len(pathStr0) = 0 THEN <<"/">> ELSE pathStr0
  IN IF ~IsAbs(p1)
       THEN [ok |-> FALSE, err |-> ErrNotAbs]
     ELSE LET p2 == IF Len(p1) > 1 THEN Clean(p1) ELSE p1
              pathSlice == IF p2 = <<"/">> THEN << <<>> >> ELSE Split(p2)
          IN IF p2 # <<"/">> /\ Len(pathSlice[1]) # 0
               THEN [ok |-> FALSE, err |-> ErrNotAbs]
             ELSE [ok |-> TRUE, pathStr |-> p2, pathSlice |-> pathSlice]

\* the end of FileInfoByPath: the path of a found entity is overwritten
FileInfoByPathExit(pathStr, r) ==
  [fileInfo |-> IF IsNil(r.fileInfo) THEN r.fileInfo
                ELSE [r.fileInfo EXCEPT !.Path = pathStr],
   err |-> r.err]

NoRs == [nil |-> TRUE]

(***************************************************************************)
(* Tree walker helpers.                                                    *)
(***************************************************************************)
\* the path recurseList gives a child of folderInfo
ChildPath(folderInfo, fi) ==
  ReplaceAll(folderInfo.Path \o <<PathSeparator>> \o fi.FileName)

\* the value of ok in recurseList after a folder child: the visitor's
\* answer is overwritten by the result of the recursive call
OkAfterFolder(okVisitor, okRecurse) == okRecurse

\* the locals of one call of recurseList: r is the listing, k the position
\* of the loop in it (from 1), ok the local of that name
Frame(folderInfo, depth) ==
  [folderInfo |-> folderInfo, depth |-> depth, r |-> <<>>, k |-> 1, ok |-> TRUE]

WalkParam(driveId, folderInfo) ==
  [DriveId |-> driveId, ParentFileId |-> folderInfo.FileId, Limit |-> 0, Marker |-> ""]

NoPend == [nil |-> TRUE]
NoResult == [nil |-> TRUE]
NoApi == [name |-> "none"]

\* the listing requests that failed so far
NumFailed == Cardinality({i \in 1..Len(events) : events[i].type = "list" /\ events[i].outcome # "ok"})

(***************************************************************************)
(* The state machine.  One behaviour is one call of an exported method on  *)
(* a constructed PanClient (the client keeps no state between calls).      *)
(* pc is the position of the call: "idle" before it, "page" before a       *)
(* request of FileListGetAll, "listed" at the return of FileListGetAll,    *)
(* "resolved" at the return of FileInfoByPath, "visit" before a visitor    *)
(* invocation, "loop" at the head of the loop of recurseList, "ret" at the *)
(* return of a recurseList call, "done" after the method returned.         *)
(* events is the sequence of listing requests sent and visitor invocations *)
(* made, in the order they happened.                                       *)
(***************************************************************************)
Limits == {0, 1}
ParentIds == {"", "root", "d1", "a1", "f1"}
CallerMarkers == {"", "m1"}
ListParams ==
  [DriveId : Drives, ParentFileId : ParentIds, Limit : Limits, Marker : CallerMarkers]

Init ==
  /\ pc = "idle"
  /\ api = NoApi
  /\ la = NoLa
  /\ laRet = NoRet
  /\ rs = NoRs
  /\ rsRet = NoRet
  /\ stack = <<>>
  /\ fld = <<>>
  /\ pend = NoPend
  /\ retv = TRUE
  /\ events = <<>>
  /\ result = NoResult

\* by names the function whose listing the request belongs to
ListEvent(q, outcome, by) ==
  [type |-> "list", req |-> q.req, outcome |-> outcome, by |-> by]

MayFail(outcome) == outcome # "ok" => NumFailed < MaxFailures

\* a call of FileList: one request
CallFileList ==
  /\ pc = "idle"
  /\ \E param \in ListParams, outcome \in Outcomes :
       /\ MayFail(outcome)
       /\ api' = [name |-> "FileList", param |-> param]
       /\ events' = Append(events, ListEvent(fileListReq(param, outcome), outcome, "api"))
       /\ result' = FileList(param, outcome)
  /\ pc' = "done"
  /\ UNCHANGED <<la, laRet, rs, rsRet, stack, fld, pend, retv>>

\* a call of FileListGetAll, up to its first request
CallFileListGetAll ==
  /\ pc = "idle"
  /\ \E param \in ListParams :
       /\ api' = [name |-> "FileListGetAll", param |-> param]
       /\ la' = FileListGetAllEnter(param, "api")
  /\ pc' = "page"
  /\ UNCHANGED <<laRet, rs, rsRet, stack, fld, pend, retv, events, result>>

\* FileListGetAll calls FileList for the next page
Page ==
  /\ pc = "page"
  /\ \E outcome \in Outcomes :
       /\ MayFail(outcome)
       /\ LET st == FileListGetAllStep(la, FileList(la.param, outcome))
          IN /\ events' = Append(events, ListEvent(fileListReq(la.param, outcome), outcome, la.caller))
             /\ la' = st.la
             /\ laRet' = st.ret
             /\ pc' = IF st.done THEN "listed" ELSE "page"
  /\ UNCHANGED <<api, rs, rsRet, stack, fld, pend, retv, result>>

\* FileListGetAll returns to the caller of the method
FileListGetAllReturn ==
  /\ pc = "listed"
  /\ la.caller = "api"
  /\ result' = laRet
  /\ pc' = "done"
  /\ UNCHANGED <<api, la, laRet, rs, rsRet, stack, fld, pend, retv, events>>

\* FileInfoByPath from its entry to its return or to the first listing
Resolve(driveId, pathStr) ==
  LET c == FileInfoByPathCheck(pathStr)
  IN IF ~c.ok
       THEN /\ rsRet' = [fileInfo |-> NilEntity, err |-> c.err]
            /\ pc' = "resolved"
            /\ UNCHANGED <<rs, la>>
     ELSE LET g == getFileInfoByPathEnter(0, c.pathSlice, NilEntity)
          IN IF g.ret
               THEN /\ rsRet' = FileInfoByPathExit(c.pathStr, g)
                    /\ pc' = "resolved"
                    /\ UNCHANGED <<rs, la>>
             ELSE /\ rs' = [pathStr |-> c.pathStr, pathSlice |-> c.pathSlice,
                            index |-> g.index, parent |-> g.parent]
                  /\ la' = FileListGetAllEnter(
                             [DriveId |-> driveId, ParentFileId |-> g.parent.FileId,
                              Limit |-> 0, Marker |-> ""], "getFileInfoByPath")
                  /\ pc' = "page"
                  /\ UNCHANGED rsRet

CallFileInfoByPath ==
  /\ pc = "idle"
  /\ \E driveId \in Drives, pathStr \in Paths :
       /\ api' = [name |-> "FileInfoByPath", driveId |-> driveId, path |-> pathStr]
       /\ Resolve(driveId, pathStr)
  /\ UNCHANGED <<laRet, stack, fld, pend, retv, events, result>>

\* getFileInfoByPath from the return of FileListGetAll to its return or to
\* the listing for the next segment
ResolveAfterList ==
  /\ pc = "listed"
  /\ la.caller = "getFileInfoByPath"
  /\ LET g == getFileInfoByPathScan(rs.index, rs.pathSlice, laRet)
     IN IF g.ret
          THEN /\ rsRet' = FileInfoByPathExit(rs.pathStr, g)
               /\ pc' = "resolved"
               /\ UNCHANGED <<rs, la>>
        ELSE /\ rs' = [rs EXCEPT !.index = g.index, !.parent = g.parent]
             /\ la' = FileListGetAllEnter(
                        [DriveId |-> api.driveId, ParentFileId |-> g.parent.FileId,
                         Limit |-> 0, Marker |-> ""], "getFileInfoByPath")
             /\ pc' = "page"
             /\ UNCHANGED rsRet
  /\ UNCHANGED <<api, laRet, stack, fld, pend, retv, events, result>>

\* FileInfoByPath returns to the caller of the method
FileInfoByPathReturn ==
  /\ pc = "resolved"
  /\ api.name = "FileInfoByPath"
  /\ result' = rsRet
  /\ pc' = "done"
  /\ UNCHANGED <<api, la, laRet, rs, rsRet, stack, fld, pend, retv, events>>

(***************************************************************************)
(* Tree walker.  The operators below take and return the part of the       *)
(* state the walker changes, as a record.                                  *)
(***************************************************************************)
Walk == [pc |-> pc, la |-> la, stack |-> stack, fld |-> fld, pend |-> pend,
         retv |-> retv, result |-> result]

VisitArgs(kind, depth, fdPath, fd, apierr) ==
  [kind |-> kind, depth |-> depth, fdPath |-> fdPath, fd |-> fd, apierr |-> apierr]

\* a call of recurseList, up to the first request of its listing
Descend(w, folderInfo, depth) ==
  [w EXCEPT !.stack = Append(@, Frame(folderInfo, depth)),
            !.la = FileListGetAllEnter(WalkParam(api.driveId, folderInfo), "recurseList"),
            !.pc = "page"]

\* FilesDirectoriesRecurseList putting the start folder into the accumulator
AfterStart_KeepStart(w, targetFileInfo) ==
  IF IsFolder(targetFileInfo)
    THEN Descend([w EXCEPT !.fld = <<targetFileInfo>>], targetFileInfo, 1)
  ELSE [w EXCEPT !.result = ListOf(<<targetFileInfo>>), !.pc = "done"]

\* FilesDirectoriesRecurseList descending into a start node of any type
AfterStart_AlwaysDescend(w, targetFileInfo) ==
  Descend([w EXCEPT !.fld = <<>>], targetFileInfo, 1)

\* FilesDirectoriesRecurseList after the visitor was offered the start node
AfterStart(w, targetFileInfo) ==
  IF IsFolder(targetFileInfo)
    THEN Descend([w EXCEPT !.fld = <<>>], targetFileInfo, 1)
  ELSE [w EXCEPT !.result = ListOf(<<targetFileInfo>>), !.pc = "done"]

\* recurseList descending into a folder child without raising the depth
AfterChild_SameDepth(w, okNow) ==
  LET n == Len(w.stack)
      fi == w.stack[n].r[w.stack[n].k]
      w1 == [w EXCEPT !.stack[n].ok = okNow]
  IN IF IsFolder(fi)
       THEN Descend(w1, fi, w.stack[n].depth)
     ELSE IF ~okNow
       THEN [w1 EXCEPT !.retv = FALSE, !.pc = "ret"]
     ELSE [w1 EXCEPT !.stack[n].k = @ + 1, !.pc = "loop"]

\* the loop of recurseList after the visitor was offered the child at k
\* and ok got the value okNow
AfterChild(w, okNow) ==
  LET n == Len(w.stack)
      fi == w.stack[n].r[w.stack[n].k]
      w1 == [w EXCEPT !.stack[n].ok = okNow]
  IN IF IsFolder(fi)
       THEN Descend(w1, fi, w.stack[n].depth + 1)
     ELSE IF ~okNow
       THEN [w1 EXCEPT !.retv = FALSE, !.pc = "ret"]
     ELSE [w1 EXCEPT !.stack[n].k = @ + 1, !.pc = "loop"]

\* what follows a visitor invocation that answered ret
AfterVisit(w, ret) ==
  CASE w.pend.kind = "resolveErr" -> [w EXCEPT !.result = NilList, !.pc = "done"]
    [] w.pend.kind = "start" -> AfterStart(w, w.pend.fd)
    [] w.pend.kind = "listErr" -> [w EXCEPT !.retv = FALSE, !.pc = "ret"]
    [] OTHER -> AfterChild(w, ret)

\* FilesDirectoriesRecurseList invoking the visitor without the error
AfterResolve_DropError(w, r) ==
  IF r.err # NoErr
    THEN IF api.hasVisitor
           THEN [w EXCEPT !.pend = VisitArgs("resolveErr", 0, api.path, NilEntity, NoErr),
                          !.pc = "visit"]
         ELSE [w EXCEPT !.result = NilList, !.pc = "done"]
  ELSE IF api.hasVisitor
    THEN [w EXCEPT !.pend = VisitArgs("start", 0, api.path, r.fileInfo, NoErr),
                   !.pc = "visit"]
  ELSE AfterStart(w, r.fileInfo)

\* FilesDirectoriesRecurseList from the return of FileInfoByPath on
AfterResolve(w, r) ==
  IF r.err # NoErr
    THEN IF api.hasVisitor
           THEN [w EXCEPT !.pend = VisitArgs("resolveErr", 0, api.path, NilEntity, r.err),
                          !.pc = "visit"]
         ELSE [w EXCEPT !.result = NilList, !.pc = "done"]
  ELSE IF api.hasVisitor
    THEN [w EXCEPT !.pend = VisitArgs("start", 0, api.path, r.fileInfo, NoErr),
                   !.pc = "visit"]
  ELSE AfterStart(w, r.fileInfo)

\* recurseList from the return of FileListGetAll to the head of its loop
AfterList(w, lr) ==
  LET n == Len(w.stack)
  IN IF lr.err # NoErr
       THEN IF api.hasVisitor
              THEN [w EXCEPT !.pend = VisitArgs("listErr", w.stack[n].depth,
                                                 w.stack[n].folderInfo.Path, NilEntity, lr.err),
                             !.pc = "visit"]
            ELSE [w EXCEPT !.retv = FALSE, !.pc = "ret"]
     ELSE [w EXCEPT !.stack[n].r = lr.list.v, !.stack[n].k = 1,
                    !.stack[n].ok = TRUE, !.pc = "loop"]

\* one turn of the loop of recurseList up to the visitor invocation
LoopTurn(w) ==
  LET n == Len(w.stack)
      f == w.stack[n]
  IN IF f.k > Len(f.r)
       THEN [w EXCEPT !.retv = TRUE, !.pc = "ret"]
     ELSE LET fi == [f.r[f.k] EXCEPT !.Path = ChildPath(f.folderInfo, f.r[f.k])]
              w1 == [w EXCEPT !.stack[n].r[f.k] = fi, !.fld = Append(@, fi)]
          IN IF api.hasVisitor
               THEN [w1 EXCEPT !.pend = VisitArgs("child", f.depth, fi.Path, fi, NoErr),
                               !.pc = "visit"]
             ELSE AfterChild(w1, f.ok)

\* a call of recurseList returns retv to the call that made it
ReturnTo(w) ==
  LET n == Len(w.stack) - 1
      w1 == [w EXCEPT !.stack = SubSeq(@, 1, n)]
  IN IF n = 0
       THEN [w1 EXCEPT !.result = IF w.retv THEN ListOf(w.fld) ELSE NilList,
                       !.pc = "done"]
     ELSE LET okNow == OkAfterFolder(w.stack[n].ok, w.retv)
          IN IF ~okNow
               THEN [w1 EXCEPT !.stack[n].ok = okNow, !.retv = FALSE, !.pc = "ret"]
             ELSE [w1 EXCEPT !.stack[n].ok = okNow, !.stack[n].k = @ + 1, !.pc = "loop"]

Becomes(w) ==
  /\ pc' = w.pc
  /\ la' = w.la
  /\ stack' = w.stack
  /\ fld' = w.fld
  /\ pend' = w.pend
  /\ retv' = w.retv
  /\ result' = w.result

VisitEvent(a, ret) ==
  [type |-> "visit", depth |-> a.depth, fdPath |-> a.fdPath, fd |-> a.fd,
   apierr |-> a.apierr, ret |-> ret]

\* a call of FilesDirectoriesRecurseList, up to the return of FileInfoByPath
CallFilesDirectoriesRecurseList ==
  /\ pc = "idle"
  /\ \E driveId \in Drives, pathStr \in Paths, hasVisitor \in BOOLEAN :
       /\ api' = [name |-> "FilesDirectoriesRecurseList", driveId |-> driveId,
                  path |-> pathStr, hasVisitor |-> hasVisitor]
       /\ Resolve(driveId, pathStr)
  /\ UNCHANGED <<laRet, stack, fld, pend, retv, events, result>>

WalkAfterResolve ==
  /\ pc = "resolved"
  /\ api.name = "FilesDirectoriesRecurseList"
  /\ Becomes(AfterResolve(Walk, rsRet))
  /\ UNCHANGED <<api, laRet, rs, rsRet, events>>

\* handleFileDirectoryFunc is invoked and answers
Visit ==
  /\ pc = "visit"
  /\ \E ret \in BOOLEAN :
       /\ events' = Append(events, VisitEvent(pend, ret))
       /\ Becomes(AfterVisit(Walk, ret))
  /\ UNCHANGED <<api, laRet, rs, rsRet>>

RecurseAfterList ==
  /\ pc = "listed"
  /\ la.caller = "recurseList"
  /\ Becomes(AfterList(Walk, laRet))
  /\ UNCHANGED <<api, laRet, rs, rsRet, events>>

RecurseLoop ==
  /\ pc = "loop"
  /\ Becomes(LoopTurn(Walk))
  /\ UNCHANGED <<api, laRet, rs, rsRet, events>>

RecurseReturn ==
  /\ pc = "ret"
  /\ Becomes(ReturnTo(Walk))
  /\ UNCHANGED <<api, laRet, rs, rsRet, events>>

Next ==
  \/ CallFileList
  \/ CallFileListGetAll
  \/ Page
  \/ FileListGetAllReturn
  \/ CallFileInfoByPath
  \/ ResolveAfterList
  \/ FileInfoByPathReturn
  \/ CallFilesDirectoriesRecurseList
  \/ WalkAfterResolve
  \/ Visit
  \/ RecurseAfterList
  \/ RecurseLoop
  \/ RecurseReturn

Spec == Init /\ [][Next]_vars

\* the calls of FileListGetAll alone, running on: a step that can be taken
\* is taken (each request is answered or fails)
NextGetAll ==
  \/ CallFileListGetAll
  \/ Page
  \/ FileListGetAllReturn

GetAllSpec == Init /\ [][NextGetAll]_vars /\ WF_vars(NextGetAll)

(***************************************************************************)
(* Properties.                                                             *)
(***************************************************************************)
IsWalk == api.name = "FilesDirectoriesRecurseList"
IsResolve == api.name = "FileInfoByPath"
IsGetAll == api.name = "FileListGetAll"
IsFileList == api.name = "FileList"

Events == 1..Len(events)
IsList(i) == events[i].type = "list"
IsVisit(i) == events[i].type = "visit"
Failed(i) == IsList(i) /\ events[i].outcome # "ok"
\* the first request of a listing (of a call of FileListGetAll by the
\* resolver or the walker, which pass no marker)
FirstPage(i) == IsList(i) /\ events[i].req.marker = ""

\* the error value a failed request produces
FailureErr(outcome) ==
  CASE outcome = "transport" -> ErrTransport
    [] outcome = "envelope" -> ErrEnvelope
    [] OTHER -> ErrParse

\* the entities of the non-absent records the server answers a request with
PageEntities(req) ==
  LET it == SelectSeq(ServerPage(req).Items, LAMBDA x : ~IsNil(x))
  IN [j \in 1..Len(it) |-> createFileEntity(it[j])]

RECURSIVE PagesUpTo(_)
\* the entities of the pages answered to the first n requests, in order
PagesUpTo(n) ==
  IF n = 0 THEN <<>> ELSE PagesUpTo(n - 1) \o PageEntities(events[n].req)

RECURSIVE SumPages(_)
SumPages(n) ==
  IF n = 0 THEN 0 ELSE SumPages(n - 1) + Len(PageEntities(events[n].req))

\* C1: in a walk, after a visitor invocation for a child node (depth >= 1,
\* an entity, no error) answered false, no further visitor invocation and
\* no further listing request happens.
C1_NothingAfterChildFalse ==
  IsWalk =>
    \A i \in Events :
      (IsVisit(i) /\ events[i].depth >= 1 /\ ~IsNil(events[i].fd) /\ ~events[i].ret)
        => i = Len(events)

\* C2: a finished walk returns a list only when no visitor invocation
\* answered false and no listing failed; if a visitor invocation answered
\* false the result is absent.
C2_ListOnlyWithoutShortCircuit ==
  (IsWalk /\ pc = "done") =>
    /\ (\E i \in Events : IsVisit(i) /\ ~events[i].ret) => result.nil
    /\ ~result.nil =>
         /\ \A i \in Events : IsVisit(i) => events[i].ret
         /\ \A i \in Events : ~(Failed(i) /\ events[i].by = "recurseList")

\* C3: when the listing of a directory fails during the walk (the first
\* request of the listing fails), the next event is the visitor invocation
\* with that error and no entity, nothing follows it, and the result is
\* absent.
C3_ListingFailureReported ==
  (IsWalk /\ api.hasVisitor) =>
    \A i \in Events :
      (Failed(i) /\ FirstPage(i) /\ events[i].by = "recurseList") =>
        /\ Len(events) <= i + 1
        /\ Len(events) = i + 1 =>
             /\ IsVisit(i + 1)
             /\ events[i + 1].apierr = FailureErr(events[i].outcome)
             /\ IsNil(events[i + 1].fd)
        /\ pc = "done" => (Len(events) = i + 1 /\ result.nil)

\* C4: FileList issues exactly one request, and when that request fails it
\* returns that error.
C4_FileListPropagatesError ==
  (IsFileList /\ pc = "done") =>
    /\ Len(events) = 1
    /\ Failed(1) => result.err = FailureErr(events[1].outcome)

\* C5: when the first page request of FileListGetAll fails, FileListGetAll
\* returns an error and no list.
C5_FirstPageFailureSurfaces ==
  (IsGetAll /\ pc = "done" /\ Failed(1)) =>
    (result.err # NoErr /\ result.list.nil)

\* C6: when page k >= 2 of FileListGetAll fails after pages 1..k-1
\* succeeded, no request follows the failed one and FileListGetAll returns
\* the entities of pages 1..k-1 in order, with no error.
C6_LaterPageFailure ==
  IsGetAll =>
    \A k \in Events :
      (k >= 2 /\ Failed(k) /\ \A j \in 1..(k - 1) : ~Failed(j)) =>
        /\ Len(events) = k
        /\ pc \in {"listed", "done"}
        /\ pc = "done" =>
             /\ result.err = NoErr
             /\ ~result.list.nil
             /\ result.list.v = PagesUpTo(k - 1)

C6_Witness ==
  /\ IsGetAll /\ pc = "done"
  /\ Len(events) >= 2 /\ Failed(Len(events))
  /\ Len(result.list.v) >= 1

\* C7: when every page request succeeds, FileListGetAll returns the
\* non-absent records of all pages in page order and in-page order, the
\* pages being those up to and including the first with an empty next
\* marker; the length of the result is the sum of the pages' counts.
C7_AllPagesConcatenated ==
  (IsGetAll /\ pc = "done" /\ \A i \in Events : ~Failed(i)) =>
    /\ result.err = NoErr
    /\ ~result.list.nil
    /\ result.list.v = PagesUpTo(Len(events))
    /\ Len(result.list.v) = SumPages(Len(events))
    /\ \A i \in Events : (ServerPage(events[i].req).NextMarker = "") <=> (i = Len(events))

C7_Witness ==
  /\ IsGetAll /\ pc = "done"
  /\ \A i \in Events : ~Failed(i)
  /\ Len(events) >= 3
  /\ \E i \in Events : Len(PageEntities(events[i].req)) < Len(ServerPage(events[i].req).Items)

\* C8: when a listing made by FileInfoByPath fails (the first request of
\* the listing fails), FileInfoByPath returns that listing error, not the
\* not-found error.
C8_ResolveListingErrorPropagated ==
  (IsResolve /\ pc = "done") =>
    \A i \in Events :
      (Failed(i) /\ FirstPage(i)) =>
        /\ result.err = FailureErr(events[i].outcome)
        /\ result.err # ErrFileNotFound
        /\ IsNil(result.fileInfo)

\* the children of an entity as the server holds them, absent records left out
Children(driveId, fileId) ==
  LET it == SelectSeq(ServerItems(driveId, fileId), LAMBDA x : ~IsNil(x))
  IN [j \in 1..Len(it) |-> createFileEntity(it[j])]

RECURSIVE Descent(_, _, _, _, _)
\* resolution of the segments segs[i..] on the server's tree from the
\* entity cur: whether every segment has a child of that name, the entity
\* reached, and the ids whose children were looked at, in order
Descent(driveId, segs, i, cur, listed) ==
  IF i > Len(segs) THEN [found |-> TRUE, entity |-> cur, listed |-> listed]
  ELSE LET ch == Children(driveId, cur.FileId)
           m == {k \in 1..Len(ch) : ch[k].FileName = segs[i]}
       IN IF m = {}
            THEN [found |-> FALSE, entity |-> NilEntity, listed |-> Append(listed, cur.FileId)]
          ELSE Descent(driveId, segs, i + 1,
                       ch[CHOOSE k \in m : \A j \in m : k <= j],
                       Append(listed, cur.FileId))

\* the segments of an absolute path after normalisation
Segments(pathStr) ==
  LET c == IF Len(pathStr) > 1 THEN Clean(pathStr) ELSE pathStr
  IN IF c = <<"/">> THEN <<>> ELSE Tail(Split(c))

\* the parents of the listings made, in order
ListedParents ==
  LET f == SelectSeq(events, LAMBDA e : e.type = "list" /\ e.req.marker = "")
  IN [j \in 1..Len(f) |-> f[j].req.parent_file_id]

\* C9: FileInfoByPath on an absolute path of which some segment has no
\* child of that name in the successful listing of the entity resolved so
\* far returns no entity and the not-found error, and lists nothing for a
\* later segment.
C9_MissingSegmentNotFound ==
  (IsResolve /\ pc = "done" /\ IsAbs(api.path) /\ \A i \in Events : ~Failed(i)) =>
    LET g == Descent(api.driveId, Segments(api.path), 1, NewFileEntityForRootDir, <<>>)
    IN ~g.found =>
         /\ IsNil(result.fileInfo)
         /\ result.err = ErrFileNotFound
         /\ ListedParents = g.listed

C9_Witness ==
  /\ IsResolve /\ pc = "done" /\ IsAbs(api.path)
  /\ \A i \in Events : ~Failed(i)
  /\ result.err = ErrFileNotFound
  /\ Len(ListedParents) >= 1
  /\ Len(ListedParents) < Len(Segments(api.path))

\* C10 as stated: FileInfoByPath on a path that does not begin with "/"
\* fails with the invalid-argument error and returns no entity.
C10_RelativeRejected ==
  (IsResolve /\ pc = "done" /\ ~IsAbs(api.path)) =>
    (result.err = ErrNotAbs /\ IsNil(result.fileInfo))

\* C10 amended: FileInfoByPath on a non-empty path that does not begin
\* with "/" fails with the invalid-argument error and returns no entity,
\* for every drive id.
C10_NonEmptyRelativeRejected ==
  (IsResolve /\ pc = "done" /\ Len(api.path) > 0 /\ ~IsAbs(api.path)) =>
    (result.err = ErrNotAbs /\ IsNil(result.fileInfo) /\ Len(events) = 0)

C10_Witness ==
  /\ IsResolve /\ pc = "done"
  /\ Len(api.path) > 1 /\ api.path[1] = "d"
  /\ api.driveId = "drv2"
  /\ result.err = ErrNotAbs


\* C11: FileInfoByPath on the path "/" returns the root entity (FileId
\* "root", FileType "folder", Path "/") and no error, and sends no listing
\* request, on every drive.
C11_RootWithoutRequest ==
  (IsResolve /\ api.path = <<"/">>) =>
    /\ Len(events) = 0
    /\ pc = "done" =>
         /\ result.err = NoErr
         /\ ~IsNil(result.fileInfo)
         /\ result.fileInfo.FileId = "root"
         /\ result.fileInfo.FileType = "folder"
         /\ result.fileInfo.Path = <<"/">>

C11_Witness ==
  /\ IsResolve /\ api.path = <<"/">> /\ api.driveId = "drv2"
  /\ pc = "done"
  /\ result.err = NoErr
  /\ result.fileInfo.FileId = "root"


\* the path string after normalisation, from its segments
Normalized(pathStr) == <<"/">> \o Join(Segments(pathStr))

\* C12: FileInfoByPath on an absolute path with segments s1..sn (n >= 1),
\* all listings succeeding and every segment having a child of its name,
\* returns the entity reached by taking at each step the first child of
\* that name, with Path the normalised path string, after exactly n
\* listings, of the root and of the entities reached before the last.
C12_FirstMatchDescent ==
  (IsResolve /\ pc = "done" /\ IsAbs(api.path) /\ Len(Segments(api.path)) >= 1
    /\ \A i \in Events : ~Failed(i)) =>
    LET g == Descent(api.driveId, Segments(api.path), 1, NewFileEntityForRootDir, <<>>)
    IN g.found =>
         /\ result.err = NoErr
         /\ result.fileInfo = [g.entity EXCEPT !.Path = Normalized(api.path)]
         /\ ListedParents = g.listed
         /\ Len(ListedParents) = Len(Segments(api.path))

C12_Witness ==
  /\ IsResolve /\ pc = "done"
  /\ api.path = <<"/", "d", "/", "A">>
  /\ \A i \in Events : ~Failed(i)
  /\ result.err = NoErr
  /\ result.fileInfo.FileId = "a1"
  /\ ListedParents = <<"root", "d1">>


\* the visitor invocations made, in order, without their answers
Visits ==
  LET f == SelectSeq(events, LAMBDA e : e.type = "visit")
  IN [j \in 1..Len(f) |->
        [depth |-> f[j].depth, fdPath |-> f[j].fdPath, fd |-> f[j].fd, apierr |-> f[j].apierr]]

AllTrue == \A i \in Events : IsVisit(i) => events[i].ret
NoFailure == \A i \in Events : ~Failed(i)

\* the node the start path names on the server's tree
Start ==
  LET g == Descent(api.driveId, Segments(api.path), 1, NewFileEntityForRootDir, <<>>)
  IN [found |-> (Len(api.path) = 0 \/ IsAbs(api.path)) /\ g.found,
      entity |-> IF g.found THEN [g.entity EXCEPT !.Path = Normalized(api.path)]
                 ELSE NilEntity]

RECURSIVE PreOrder(_, _, _, _, _)
\* the descendants of a folder in depth-first pre-order, siblings in the
\* server's order, from the k-th child ch[k] on: each with its depth and
\* with the path of its parent, a slash and its name
PreOrder(driveId, ch, k, parentPath, depth) ==
  IF k > Len(ch) THEN <<>>
  ELSE LET p == (IF parentPath = <<"/">> THEN <<>> ELSE parentPath)
                  \o <<"/">> \o ch[k].FileName
           me == [depth |-> depth, fdPath |-> p, fd |-> [ch[k] EXCEPT !.Path = p],
                  apierr |-> NoErr]
           sub == IF IsFolder(ch[k])
                    THEN PreOrder(driveId, Children(driveId, ch[k].FileId), 1, p, depth + 1)
                  ELSE <<>>
       IN <<me>> \o sub \o PreOrder(driveId, ch, k + 1, parentPath, depth)

\* C13: in a finished walk of a folder in which the visitor always
\* answered true and no request failed, the visitor was invoked first at
\* depth 0 for the start folder and then once for every descendant, in
\* depth-first pre-order with siblings in listing order, with the depth
\* and the path of the descendant.
C13_PreOrderVisits ==
  (IsWalk /\ api.hasVisitor /\ pc = "done" /\ AllTrue /\ NoFailure
    /\ Start.found /\ IsFolder(Start.entity)) =>
    /\ Len(Visits) >= 1
    /\ Visits[1].depth = 0
    /\ Visits[1].fd = Start.entity
    /\ Visits[1].apierr = NoErr
    /\ Tail(Visits) =
         PreOrder(api.driveId, Children(api.driveId, Start.entity.FileId), 1,
                  Start.entity.Path, 1)

C13_Witness ==
  /\ IsWalk /\ api.hasVisitor /\ pc = "done" /\ AllTrue /\ NoFailure
  /\ api.driveId = "drv1" /\ api.path = <<"/", "d">>
  /\ Len(Visits) = 4
  /\ Visits[3].depth = 2 /\ Visits[3].fdPath = <<"/", "d", "/", "A", "/", "f">>
  /\ Visits[4].depth = 1 /\ Visits[4].fdPath = <<"/", "d", "/", "f">>


\* a walk with a visitor whose start path resolved to a folder has
\* finished and returned a list
FolderWalkCompleted ==
  /\ IsWalk /\ api.hasVisitor /\ pc = "done"
  /\ rsRet.err = NoErr /\ IsFolder(rsRet.fileInfo)
  /\ ~result.nil

\* C14 as stated: the list a completed walk of a folder returns is the
\* sequence of the entities the visitor was invoked on, the start node
\* included, in invocation order.
C14_ListIsAllVisited ==
  FolderWalkCompleted =>
    /\ Len(result.v) = Len(Visits)
    /\ result.v = [j \in 1..Len(Visits) |-> Visits[j].fd]

\* C14 amended: the list a completed walk of a folder returns is the
\* sequence of the entities the visitor was invoked on at depth >= 1, in
\* invocation order; the start folder, visited first at depth 0, is not in
\* it, so its length is the number of invocations less one.
C14_ListIsVisitedBelowStart ==
  FolderWalkCompleted =>
    /\ Len(Visits) >= 1
    /\ Visits[1].depth = 0 /\ Visits[1].fd = rsRet.fileInfo
    /\ \A j \in 2..Len(Visits) : Visits[j].depth >= 1
    /\ Len(result.v) = Len(Visits) - 1
    /\ result.v = [j \in 1..(Len(Visits) - 1) |-> Visits[j + 1].fd]

C14_Witness ==
  /\ FolderWalkCompleted
  /\ api.driveId = "drv1" /\ api.path = <<"/", "d">>
  /\ Len(Visits) = 4
  /\ Len(result.v) = 3


\* C15: after the visitor answered false on the depth-0 invocation for a
\* start path that resolved to a folder, no listing request and no visitor
\* invocation follows, and the result is absent.
C15_NoDescentAfterStartFalse ==
  IsWalk =>
    \A i \in Events :
      (IsVisit(i) /\ events[i].depth = 0 /\ ~IsNil(events[i].fd)
        /\ IsFolder(events[i].fd) /\ ~events[i].ret) =>
        /\ i = Len(events)
        /\ pc = "done" => result.nil

\* C16: a walk whose start path resolved to a file invokes the visitor
\* once, at depth 0 with that entity and no error, sends no listing request
\* with the file as parent, and returns the list of that one entity,
\* whatever the visitor answered.
C16_FileStart ==
  (IsWalk /\ api.hasVisitor /\ pc = "done" /\ rsRet.err = NoErr /\ ~IsFolder(rsRet.fileInfo)) =>
    /\ Visits = <<[depth |-> 0, fdPath |-> api.path, fd |-> rsRet.fileInfo, apierr |-> NoErr]>>
    /\ \A i \in Events :
         IsList(i) => /\ events[i].by = "getFileInfoByPath"
                      /\ events[i].req.parent_file_id # rsRet.fileInfo.FileId
    /\ result = ListOf(<<rsRet.fileInfo>>)

C16_Witness ==
  /\ IsWalk /\ api.hasVisitor /\ pc = "done"
  /\ api.driveId = "drv1" /\ api.path = <<"/", "d", "/", "f">>
  /\ rsRet.err = NoErr /\ rsRet.fileInfo.FileId = "f2"
  /\ \E i \in Events : IsVisit(i) /\ ~events[i].ret

\* C17: a walk whose start path failed to resolve invokes the visitor
\* once, at depth 0 with the resolution error and no entity, sends no
\* listing request for the traversal, and returns an absent result.
C17_ResolveFailure ==
  (IsWalk /\ api.hasVisitor /\ pc = "done" /\ rsRet.err # NoErr) =>
    /\ Visits = <<[depth |-> 0, fdPath |-> api.path, fd |-> NilEntity, apierr |-> rsRet.err]>>
    /\ \A i \in Events : IsList(i) => events[i].by = "getFileInfoByPath"
    /\ result.nil

C17_Witness ==
  /\ IsWalk /\ api.hasVisitor /\ pc = "done"
  /\ rsRet.err = ErrFileNotFound
  /\ Len(events) >= 3
  /\ IsVisit(Len(events)) /\ events[Len(events)].apierr = ErrFileNotFound


\* the page that ends the paging: it failed or reported an empty marker
LastPage(i) == Failed(i) \/ ServerPage(events[i].req).NextMarker = ""

\* the requests of a call of FileListGetAll so far form the marker chain:
\* the first carries the caller's marker, each later one the next marker
\* of the page before it, and none follows a page that failed or reported
\* an empty marker; the call has returned only after such a page
MarkerChain ==
  IsGetAll =>
    /\ \A i \in Events :
         /\ IsList(i)
         /\ events[i].req.drive_id = api.param.DriveId
         /\ i = 1 => events[i].req.marker = api.param.Marker
         /\ i > 1 => /\ ~LastPage(i - 1)
                     /\ events[i].req.marker = ServerPage(events[i - 1].req).NextMarker
    /\ pc \in {"listed", "done"} => (Len(events) >= 1 /\ LastPage(Len(events)))
    /\ pc = "page" => (Len(events) = 0 \/ ~LastPage(Len(events)))

\* C18: FileListGetAll sends its page requests along the marker chain,
\* sends none after a page that failed or reported an empty marker, and
\* (the server's marker chains being finite) returns, after exactly the
\* requests up to the first such page.
C18_MarkerChainTerminates ==
  /\ []MarkerChain
  /\ (IsGetAll ~> (pc = "done"))

C18_Witness ==
  /\ IsGetAll /\ pc = "done"
  /\ api.param.Marker = "m1"
  /\ Len(events) = 3
  /\ events[1].req.marker = "m1" /\ events[2].req.marker = "m2" /\ events[3].req.marker = "m3"
  /\ NoFailure


\* the entity the first j segments of the path name on the server's tree
Prefix(j) ==
  Descent(api.driveId, SubSeq(Segments(api.path), 1, j), 1, NewFileEntityForRootDir, <<>>)

\* C19: when a segment before the last of the path resolves to a file and
\* all listings succeed, FileInfoByPath still sends a listing request with
\* the id of that file as parent, and when that listing has no child of
\* the next segment's name the result is the not-found error.
C19_NoShortCircuitAtFile ==
  (IsResolve /\ pc = "done" /\ IsAbs(api.path) /\ NoFailure) =>
    \A j \in 1..(Len(Segments(api.path)) - 1) :
      (Prefix(j).found /\ ~IsFolder(Prefix(j).entity)) =>
        /\ \E i \in Events : IsList(i) /\ events[i].req.parent_file_id = Prefix(j).entity.FileId
        /\ ~Prefix(j + 1).found =>
             (result.err = ErrFileNotFound /\ IsNil(result.fileInfo))

C19_Witness ==
  /\ IsResolve /\ pc = "done" /\ NoFailure
  /\ api.driveId = "drv1" /\ api.path = <<"/", "f", "/", "f">>
  /\ ListedParents = <<"root", "f1">>
  /\ result.err = ErrFileNotFound

\* C20: FileInfoByPath on the empty path string returns the root entity
\* (FileId "root", Path "/") and no error, and sends no listing request.
C20_EmptyPathIsRoot ==
  (IsResolve /\ Len(api.path) = 0) =>
    /\ Len(events) = 0
    /\ pc = "done" =>
         /\ result.err = NoErr
         /\ ~IsNil(result.fileInfo)
         /\ result.fileInfo.FileId = "root"
         /\ result.fileInfo.Path = <<"/">>

C20_Witness ==
  /\ IsResolve /\ Len(api.path) = 0 /\ pc = "done"
  /\ result.err = NoErr
  /\ result.fileInfo = NewFileEntityForRootDir

====
